---- MODULE Spec2Model ----
(***************************************************************************)
(* Model of orbit's panel docking controller (src/src/panel.rs).           *)
(*                                                                         *)
(* PanelItemUIHandler keeps the item registry (items) and the acceptor     *)
(* registry (the value of the watch channel).  Every PanelItemUI is one    *)
(* panel controller.  update_distances spawns one task per frame and per   *)
(* panel; the task awaits all distance replies, then sets the edge colour  *)
(* and possibly sends a capture request.                                   *)
(*                                                                         *)
(* Lengths are f32 in the source; here they are integers in thousandths    *)
(* of a length unit (0.05 is 50).  Distance replies are finite numbers.    *)
(* The server gives every item and every acceptor a uid of its own, so a   *)
(* uid is created only while no entry and no running task carries it.      *)
(***************************************************************************)
EXTENDS Integers, Sequences, FiniteSets, TLC

\* Largest number of spawned sampling tasks that have not completed yet.
MaxInFlight == 1
\* The most sampling tasks in flight where one panel's passes overlap.
MaxPasses == 2

PANEL_WIDTH == 100
PANEL_THICKNESS == 10
MAX_ACCEPT_DISTANCE == 50
\* Start of the distance range mapped onto the gradient (0.25).
GRADIENT_FROM == 250

\* Item uids and acceptor uids the server hands out.
PanelIds == {"p1", "p2"}
AcceptorIds == {"a", "b"}

None == "none"
\* Signed distances a field reports for the panel's origin: one inside the
\* accept distance, one whose absolute value is exactly the accept distance.
Distances == {-50, 30}
\* The result of one distance query: Ok(v) or Err.
Ok(v) == [ok |-> TRUE, v |-> v]
Err == [ok |-> FALSE, v |-> 0]
Replies == {Ok(v) : v \in Distances} \cup {Err}
\* Toplevel sizes in pixels, <<x, y>>.
ToplevelSizes == {<<2, 1>>}
\* A square, a wide and a tall toplevel.
ResizeSizes == {<<1, 1>>, <<2, 1>>, <<1, 2>>}
NoSize == <<0, 0>>

\* Poses of a spatial node along one axis; composing two of them wraps
\* around, so that the poses stay a group.
Poses == {0, 1, 2}
Identity == 0
Compose(a, b) == (a + b) % 3
Inverse(a) == (3 - a) % 3

\* What Grabbable::update leaves behind: is the grab action acting, has it
\* stopped this frame, is there a linear velocity.  A panel at rest and a
\* panel thrown.
GrabStates ==
    { [acting |-> FALSE, stopped |-> FALSE, speed |-> FALSE],
      [acting |-> FALSE, stopped |-> FALSE, speed |-> TRUE] }

\* Every combination of the three readings.
AllGrabStates == [acting : BOOLEAN, stopped : BOOLEAN, speed : BOOLEAN]

VARIABLES
    items,      \* PanelItemUIHandler.items: uid -> PanelItemUI
    acceptors,  \* the watch channel's map, as its keys in iteration order
    tasks,      \* spawned sampling tasks not yet completed, in spawn order
    ev          \* the last handler or task that ran, with what it sent out

vars == <<items, acceptors, tasks, ev>>

----------------------------------------------------------------------------
\* Helpers on sequences.

Range(s) == {s[j] : j \in 1..Len(s)}

RemoveAt(s, i) == [j \in 1..(Len(s) - 1) |-> IF j < i THEN s[j] ELSE s[j + 1]]

\* All orderings of the finite set S.
Orderings(S) ==
    {s \in [1..Cardinality(S) -> S] : \A a \in S : \E j \in DOMAIN s : s[j] = a}

Without(s, x) == SelectSeq(s, LAMBDA y : y # x)

Min2(a, b) == IF a < b THEN a ELSE b

----------------------------------------------------------------------------
\* PanelItemUI

\* Colours of the model's "Edge" material: the one the asset ships with,
\* opaque white, and the magma gradient at position t (in thousandths).
AssetColour == [name |-> "asset", t |-> 0]
White == [name |-> "white", t |-> 0]
Magma(t) == [name |-> "magma", t |-> t]
NoColour == [name |-> None, t |-> 0]

\* A task's id tells the tasks in flight apart where two of one panel run at
\* once; it is 0 where they are not told apart.
NoTask == [panel |-> None, accept |-> FALSE, keys |-> <<>>, fields |-> <<>>, id |-> 0]
NoWinner == [uid |-> None, distance |-> 0]

\* What ev holds: the handler or task that ran last (kind, uid), for a
\* completed task the task, the replies it got and the winner it found, and
\* the commands sent out: the edge colour set and the acceptor asked to
\* capture the panel.
\* ev.sent lists the commands of a completed task in the order it sent them;
\* ev.size is the toplevel size item_created or toplevel_size_changed got.
NoEvent ==
    [kind |-> "init", uid |-> None, task |-> NoTask, replies |-> <<>>,
     winner |-> NoWinner, colour |-> NoColour, capture |-> None, sent |-> <<>>,
     size |-> NoSize]

Event(kind, uid) == [NoEvent EXCEPT !.kind = kind, !.uid = uid]

SizedEvent(kind, uid, size) == [Event(kind, uid) EXCEPT !.size = size]

\* size.y as f32 / size.x as f32, in thousandths.
AspectRatio(size) == (size[2] * 1000) \div size[1]

\* on_resize: the size given to the model's scale and to the box field.
ResizedSize(size) ==
    <<PANEL_WIDTH, (PANEL_WIDTH * AspectRatio(size)) \div 1000, PANEL_THICKNESS>>

\* Mutant of on_resize: the current scale is multiplied by the aspect ratio.
on_resize_relative(ui, size) ==
    LET scaled == <<PANEL_WIDTH, (ui.modelScale[2] * AspectRatio(size)) \div 1000,
                    PANEL_THICKNESS>>
    IN [ui EXCEPT !.modelScale = scaled, !.fieldSize = scaled]

on_resize(ui, size) ==
    [ui EXCEPT !.modelScale = ResizedSize(size), !.fieldSize = ResizedSize(size)]

\* PanelItemUI::new, when every resource was created.
NewPanelItemUI(size) ==
    on_resize(
        [captured |-> FALSE,
         modelEnabled |-> TRUE,
         grabEnabled |-> TRUE,
         grab |-> [acting |-> FALSE, stopped |-> FALSE, speed |-> FALSE],
         edge |-> AssetColour,
         panelLocal |-> Identity,
         contentParent |-> Identity,
         modelScale |-> <<PANEL_WIDTH, PANEL_WIDTH, PANEL_THICKNESS>>,
         fieldSize |-> <<PANEL_WIDTH, PANEL_WIDTH, PANEL_THICKNESS>>],
        size)

\* Mutant of update_state: the grabbable is left as it was.
update_state_model_only(ui, captured) ==
    [ui EXCEPT !.captured = captured, !.modelEnabled = ~captured]

update_state(ui, captured) ==
    [ui EXCEPT !.captured = captured,
               !.modelEnabled = ~captured,
               !.grabEnabled = ~captured]

\* captured(): update_state(true), then both velocities are cancelled.
captured(ui) ==
    [update_state(ui, TRUE) EXCEPT !.grab.speed = FALSE]

\* Mutant of released: the panel's local transform is not reset.
released_keeps_local(ui) ==
    [update_state(ui, FALSE) EXCEPT
        !.contentParent = Compose(ui.contentParent, ui.panelLocal)]

\* released(): update_state(false); the grabbable's content parent is put
\* where the panel is (identity relative to the panel item, its child, which
\* moves along); then the panel's transform in its parent, the content
\* parent, is set to identity.
released(ui) ==
    [update_state(ui, FALSE) EXCEPT
        !.contentParent = Compose(ui.contentParent, ui.panelLocal),
        !.panelLocal = Identity]

\* Mutant of Accept: the || taken before the &&.
Accept_or_first(g) == ~g.acting /\ (g.speed \/ g.stopped)

\* The accept argument frame() passes to update_distances.
Accept(g) == (~g.acting /\ g.speed) \/ g.stopped

\* update_distances up to the spawn: the tasks it spawns for panel uid.
update_distances(ui, uid, accept) ==
    IF ui.captured THEN <<>>
    ELSE IF acceptors = <<>> THEN <<>>
    ELSE << [panel |-> uid, accept |-> accept,
             keys |-> acceptors, fields |-> acceptors, id |-> 0] >>

\* Mutant of frame_ui: no early return for a captured panel.
frame_ui_unguarded(ui, g) == [ui EXCEPT !.grab = g]

\* PanelItemUI::frame on the controller: g is what grabbable.update leaves.
frame_ui(ui, g) ==
    IF ui.captured THEN ui ELSE [ui EXCEPT !.grab = g]

frame_spawns(ui, uid, g) ==
    IF ui.captured THEN <<>> ELSE update_distances(frame_ui(ui, g), uid, Accept(g))

----------------------------------------------------------------------------
\* The task update_distances spawns.

Abs(x) == IF x < 0 THEN -x ELSE x

\* multi_node_call: one reply per field, in the order of fields.
FieldReplies(fields, d) == [j \in 1..Len(fields) |-> d[fields[j]]]

AbsReply(r) == IF r.ok THEN Ok(Abs(r.v)) ELSE r

\* keys.zip(distances.map(abs)): as long as the shorter of the two.
Zip(ks, ds) ==
    [j \in 1..Min2(Len(ks), Len(ds)) |-> [uid |-> ks[j], reply |-> AbsReply(ds[j])]]

\* filter_map(|(k, v)| Some((k, v.ok()?)))
FilterOk(z) ==
    LET oks == SelectSeq(z, LAMBDA kv : kv.reply.ok)
    IN [j \in 1..Len(oks) |-> [uid |-> oks[j].uid, distance |-> oks[j].reply.v]]

\* Mutant of Closer: the comparison is the wrong way round.
Closer_farther(a, b) == IF a.distance < b.distance THEN b ELSE a

\* Mutant of Closer: an equal later candidate replaces the best so far.
Closer_or_equal(a, b) == IF a.distance >= b.distance THEN b ELSE a

\* The closure given to reduce.
Closer(a, b) == IF a.distance > b.distance THEN b ELSE a

RECURSIVE ReduceFrom(_, _, _)
ReduceFrom(acc, s, j) ==
    IF j > Len(s) THEN acc ELSE ReduceFrom(Closer(acc, s[j]), s, j + 1)

\* Iterator::reduce: NoWinner stands for its None.
Reduce(s) == IF s = <<>> THEN NoWinner ELSE ReduceFrom(s[1], s, 2)

\* Mutant of TaskKeys: the keys are read when the replies are in.
TaskKeys_live(t) == acceptors

\* The keys zipped with the replies: those collected before the spawn.
TaskKeys(t) == t.keys

Winner(t, d) == Reduce(FilterOk(Zip(TaskKeys(t), FieldReplies(t.fields, d))))

\* distance.map_range(0.25..MAX_ACCEPT_DISTANCE, 0.0..1.0), in thousandths.
MapRange(x) ==
    0 + ((x - GRADIENT_FROM) * (1000 - 0)) \div (MAX_ACCEPT_DISTANCE - GRADIENT_FROM)

EdgeColour(w) == IF w = NoWinner THEN White ELSE Magma(MapRange(w.distance))

\* Mutants of CaptureWanted: the comparison reversed; the comparison not
\* strict.
CaptureWanted_beyond(accept, distance) == accept /\ distance > MAX_ACCEPT_DISTANCE

CaptureWanted_inclusive(accept, distance) == accept /\ distance <= MAX_ACCEPT_DISTANCE

\* accept && distance < MAX_ACCEPT_DISTANCE
CaptureWanted(accept, distance) == accept /\ distance < MAX_ACCEPT_DISTANCE

\* Mutant of LookUp: the acceptor is taken from what the task collected at
\* dispatch.
LookUp_snapshot(uid) == uid

\* acceptors.borrow().get(&uid): the receiver sees the registry as it is when
\* the task reaches this line.
LookUp(uid) == IF uid \in Range(acceptors) THEN uid ELSE None

CaptureTarget(t, w) ==
    IF w = NoWinner THEN None
    ELSE IF CaptureWanted(t.accept, w.distance) THEN LookUp(w.uid)
    ELSE None

\* The two commands a task sends: set_material_parameter("color", c) on the
\* model's Edge part, and capture(&panel_item) on acceptor a.
SetColour(c) == [cmd |-> "set_material_parameter", colour |-> c, acceptor |-> None]
CaptureCmd(a) == [cmd |-> "capture", colour |-> NoColour, acceptor |-> a]

\* Mutant of TaskSends: the capture request goes out before the colour.
TaskSends_capture_first(t, w) ==
    (IF CaptureTarget(t, w) = None THEN <<>> ELSE <<CaptureCmd(CaptureTarget(t, w))>>)
        \o <<SetColour(EdgeColour(w))>>

\* The commands of the task body, in program order: the colour, then the
\* capture request when the test passes and the acceptor is found.
TaskSends(t, w) ==
    <<SetColour(EdgeColour(w))>>
        \o (IF CaptureTarget(t, w) = None THEN <<>> ELSE <<CaptureCmd(CaptureTarget(t, w))>>)

\* Mutant of task_applies: the controller counts itself captured as soon as
\* the task has sent a capture request.
task_applies_optimistic(ui, t, w) ==
    IF CaptureTarget(t, w) = None
    THEN [ui EXCEPT !.edge = EdgeColour(w)]
    ELSE update_state([ui EXCEPT !.edge = EdgeColour(w)], TRUE)

\* What a completed task changes of its panel: the colour of the edge.
task_applies(ui, t, w) == [ui EXCEPT !.edge = EdgeColour(w)]

----------------------------------------------------------------------------
\* State after PanelItemUIHandler::new: no item, no acceptor, nothing spawned.

Init ==
    /\ items = [p \in {} |-> 0]
    /\ acceptors = <<>>
    /\ tasks = <<>>
    /\ ev = NoEvent

Registered == DOMAIN items

\* uids are unique: the server never gives a new item or acceptor a uid that
\* a live entry or a task still running carries.
FreshPanel(uid) ==
    /\ uid \notin Registered
    /\ \A j \in 1..Len(tasks) : tasks[j].panel # uid

FreshAcceptor(uid) ==
    /\ uid \notin Range(acceptors)
    /\ \A j \in 1..Len(tasks) : uid \notin Range(tasks[j].keys)

Put(uid, ui) == [p \in Registered \cup {uid} |-> IF p = uid THEN ui ELSE items[p]]

\* item_created: PanelItemUI::new or item.wrap may fail (created = FALSE),
\* and then the handler returns without touching items.
item_created(uid, size, created) ==
    /\ FreshPanel(uid)
    /\ items' = IF created THEN Put(uid, NewPanelItemUI(size)) ELSE items
    /\ ev' = SizedEvent(IF created THEN "item_created" ELSE "item_create_failed",
                        uid, size)
    /\ UNCHANGED <<acceptors, tasks>>

\* Mutant of item_captured: the uid is not looked up, every item is captured.
item_captured_all(uid) ==
    /\ items' = [p \in Registered |-> captured(items[p])]
    /\ ev' = Event("item_captured", uid)
    /\ UNCHANGED <<acceptors, tasks>>

item_captured(uid) ==
    /\ items' = IF uid \in Registered
                THEN [items EXCEPT ![uid] = captured(items[uid])]
                ELSE items
    /\ ev' = Event("item_captured", uid)
    /\ UNCHANGED <<acceptors, tasks>>

item_released(uid) ==
    /\ items' = IF uid \in Registered
                THEN [items EXCEPT ![uid] = released(items[uid])]
                ELSE items
    /\ ev' = Event("item_released", uid)
    /\ UNCHANGED <<acceptors, tasks>>

\* Mutant of item_destroyed: dropping the controller aborts its tasks.
item_destroyed_aborting(uid) ==
    /\ items' = [p \in Registered \ {uid} |-> items[p]]
    /\ tasks' = SelectSeq(tasks, LAMBDA t : t.panel # uid)
    /\ ev' = Event("item_destroyed", uid)
    /\ UNCHANGED acceptors

\* Mutant of item_destroyed: the entry of a captured panel is kept.
item_destroyed_unless_captured(uid) ==
    /\ items' = [p \in {q \in Registered : q # uid \/ items[q].captured} |-> items[p]]
    /\ ev' = Event("item_destroyed", uid)
    /\ UNCHANGED <<acceptors, tasks>>

item_destroyed(uid) ==
    /\ items' = [p \in Registered \ {uid} |-> items[p]]
    /\ ev' = Event("item_destroyed", uid)
    /\ UNCHANGED <<acceptors, tasks>>

\* acceptor_created: the insert may put the new key anywhere in the map's
\* iteration order and, when the table grows, move the others.
acceptor_created(uid) ==
    /\ FreshAcceptor(uid)
    /\ acceptors' \in Orderings(Range(acceptors) \cup {uid})
    /\ ev' = Event("acceptor_created", uid)
    /\ UNCHANGED <<items, tasks>>

acceptor_destroyed(uid) ==
    /\ acceptors' = Without(acceptors, uid)
    /\ ev' = Event("acceptor_destroyed", uid)
    /\ UNCHANGED <<items, tasks>>

\* toplevel_size_changed reaches the PanelItemUI wrapped for the item.
toplevel_size_changed(uid, size) ==
    /\ uid \in Registered
    /\ items' = [items EXCEPT ![uid] = on_resize(items[uid], size)]
    /\ ev' = SizedEvent("toplevel_size_changed", uid, size)
    /\ UNCHANGED <<acceptors, tasks>>

\* The server moves the nodes of a registered panel: the panel item in its
\* parent (an acceptor placing it, the content parent dragging it along) and
\* the grabbable's content parent (the grab).
moved(uid, local, content) ==
    /\ uid \in Registered
    /\ items' = [items EXCEPT ![uid].panelLocal = local,
                              ![uid].contentParent = content]
    /\ ev' = Event("moved", uid)
    /\ UNCHANGED <<acceptors, tasks>>

\* The tasks one frame spawns, for the items visited in the order given.
RECURSIVE Spawned(_, _, _)
Spawned(order, g, j) ==
    IF j > Len(order) THEN <<>>
    ELSE frame_spawns(items[order[j]], order[j], g[order[j]]) \o Spawned(order, g, j + 1)

\* tokio::spawn gives every task an id that no other running task has.
FreeId(ts, max) == CHOOSE n \in 1..max : \A j \in 1..Len(ts) : ts[j].id # n

RECURSIVE Numbered(_, _, _)
Numbered(ts, spawned, max) ==
    IF spawned = <<>> THEN ts
    ELSE Numbered(Append(ts, [Head(spawned) EXCEPT !.id = FreeId(ts, max)]),
                  Tail(spawned), max)

\* PanelItemUIHandler::frame: every registered item's frame(), in the map's
\* iteration order; g[p] is what grabbable.update(info) leaves for p.
\* G is the set grabbable.update chooses from, max the cap on running tasks.
\* With numbered set, each spawned task gets an id no task in flight has.
frame_tasks(G, max, numbered) ==
    \E order \in Orderings(Registered), g \in [Registered -> G] :
        LET spawned == Spawned(order, g, 1)
        IN /\ Len(tasks) + Len(spawned) <= max
           /\ items' = [p \in Registered |-> frame_ui(items[p], g[p])]
           /\ tasks' = IF numbered THEN Numbered(tasks, spawned, max)
                                   ELSE tasks \o spawned
           /\ ev' = Event("frame", None)
           /\ UNCHANGED acceptors

frame_with(G, max) == frame_tasks(G, max, FALSE)

frame == frame_with(GrabStates, MaxInFlight)

\* The spawned task tasks[i] gets the replies d of its queries and runs to
\* its end.  It holds aliases of the model and of the panel item, so it runs
\* whether or not the controller is still registered.
complete(i) ==
    \E d \in [Range(tasks[i].fields) -> Replies] :
        LET t == tasks[i]
            w == Winner(t, d)
        IN /\ tasks' = RemoveAt(tasks, i)
           /\ items' = IF t.panel \in Registered
                       THEN [items EXCEPT ![t.panel] = task_applies(items[t.panel], t, w)]
                       ELSE items
           /\ ev' = [kind |-> "complete", uid |-> t.panel, task |-> t,
                     replies |-> d, winner |-> w, colour |-> EdgeColour(w),
                     capture |-> CaptureTarget(t, w), sent |-> TaskSends(t, w),
                     size |-> NoSize]
           /\ UNCHANGED acceptors

Next ==
    \/ \E uid \in PanelIds, size \in ToplevelSizes, created \in BOOLEAN :
           item_created(uid, size, created)
    \/ \E uid \in PanelIds : item_captured(uid)
    \/ \E uid \in PanelIds : item_released(uid)
    \/ \E uid \in PanelIds : item_destroyed(uid)
    \/ \E uid \in AcceptorIds : acceptor_created(uid)
    \/ \E uid \in AcceptorIds : acceptor_destroyed(uid)
    \/ \E uid \in PanelIds, size \in ToplevelSizes : toplevel_size_changed(uid, size)
    \/ frame
    \/ \E i \in 1..Len(tasks) : complete(i)

Spec == Init /\ [][Next]_vars

----------------------------------------------------------------------------
\* Properties.

IsCaptured(p) == p \in Registered /\ items[p].captured

\* C1: a panel's captured flag changes only in item_captured (to TRUE) and
\* item_released (to FALSE) for that panel's own uid; a controller starts
\* not captured; no other handler or task changes the flag.
CapturedOnlyByAcknowledgment ==
    [][\A p \in PanelIds :
          /\ (p \notin DOMAIN items /\ p \in DOMAIN items') => ~items'[p].captured
          /\ (p \in DOMAIN items /\ p \in DOMAIN items'
                  /\ items'[p].captured # items[p].captured)
             => /\ ev'.uid = p
                /\ ev'.kind = IF items'[p].captured THEN "item_captured"
                                                    ELSE "item_released"]_vars

\* C1 witness: p1 was released while p2, also registered, stays captured.
ReleasedBesideCapturedPanel ==
    /\ ev.kind = "item_released" /\ ev.uid = "p1"
    /\ "p1" \in Registered /\ ~items["p1"].captured
    /\ IsCaptured("p2")

\* C3: for every registered panel, the model and the grabbable are enabled
\* exactly when the panel is not captured.
EnabledIffNotCaptured ==
    \A p \in Registered :
        /\ items[p].modelEnabled = ~items[p].captured
        /\ items[p].grabEnabled = ~items[p].captured

\* C3 witness: a captured panel, both representations disabled, right after
\* a resize of that panel.
CapturedPanelResized ==
    /\ ev.kind = "toplevel_size_changed"
    /\ IsCaptured(ev.uid)
    /\ ~items[ev.uid].modelEnabled /\ ~items[ev.uid].grabEnabled

\* C2 (as claimed): a task that completes while its panel is captured sets
\* no edge colour and asks no acceptor to capture the panel.  A task is only
\* spawned for a panel that is not captured, so such a task was dispatched
\* before the panel's state moved to Captured.
StaleCompletionAfterCaptureDoesNothing ==
    (ev.kind = "complete" /\ IsCaptured(ev.uid))
        => (ev.colour = NoColour /\ ev.capture = None)

\* The tasks of ts that belong to panel p, in spawn order.
TasksOf(ts, p) == SelectSeq(ts, LAMBDA t : t.panel = p)

\* C4: a frame leaves every captured panel's controller (grabbable state,
\* captured flag, edge colour) as it was, spawns no task for it, sends no
\* capture request and leaves the acceptor registry unchanged.
FrameOnCapturedIsNoOp ==
    [][ev'.kind = "frame" =>
          /\ acceptors' = acceptors
          /\ ev'.capture = None /\ ev'.colour = NoColour
          /\ \A p \in PanelIds :
                IsCaptured(p) =>
                    /\ p \in DOMAIN items' /\ items'[p] = items[p]
                    /\ TasksOf(tasks', p) = TasksOf(tasks, p)]_vars

\* C4 witness: a frame ran with acceptors registered while p1 was captured;
\* it spawned a task for p2 and none for p1.
FrameSkippedCapturedPanel ==
    /\ ev.kind = "frame"
    /\ IsCaptured("p1")
    /\ acceptors # <<>>
    /\ TasksOf(tasks, "p1") = <<>>
    /\ TasksOf(tasks, "p2") # <<>>

\* The acceptors whose query succeeded in the task ev reports, and the
\* absolute distance each of them replied.
Succeeded == {a \in DOMAIN ev.replies : ev.replies[a].ok}

Replied(a) == Abs(ev.replies[a].v)

\* C5: when a task completes and some query succeeded, the winner is one of
\* the acceptors that succeeded, with the absolute distance it replied, and
\* no acceptor that succeeded replied a smaller one; when no query succeeded
\* there is no winner, the edge is set to white and no capture is requested.
WinnerIsNearestSuccess ==
    ev.kind = "complete" =>
        IF Succeeded = {}
        THEN ev.winner = NoWinner /\ ev.colour = White /\ ev.capture = None
        ELSE /\ ev.winner.uid \in Succeeded
             /\ ev.winner.distance = Replied(ev.winner.uid)
             /\ \A b \in Succeeded : ev.winner.distance <= Replied(b)

\* C5 witness: two acceptors queried, both replied, the second in iteration
\* order strictly nearer, and it won.
SecondAcceptorNearerWon ==
    /\ ev.kind = "complete"
    /\ Len(ev.task.keys) = 2
    /\ Succeeded = Range(ev.task.keys)
    /\ Replied(ev.task.keys[2]) < Replied(ev.task.keys[1])
    /\ ev.winner.uid = ev.task.keys[2]

\* C6 (as claimed): a task that completes with accept and a winner nearer
\* than MAX_ACCEPT_DISTANCE requests capture on the winner.
CaptureRequestedWheneverNear ==
    (ev.kind = "complete" /\ ev.task.accept /\ ev.winner # NoWinner
        /\ ev.winner.distance < MAX_ACCEPT_DISTANCE)
        => ev.capture = ev.winner.uid

\* C6 (amended): a task that completes with accept and a winner nearer than
\* MAX_ACCEPT_DISTANCE requests capture on the winner, provided the winner's
\* uid is still in the acceptor registry when the task completes.
CaptureRequestedWhenNearAndRegistered ==
    (ev.kind = "complete" /\ ev.task.accept /\ ev.winner # NoWinner
        /\ ev.winner.distance < MAX_ACCEPT_DISTANCE
        /\ ev.winner.uid \in Range(acceptors))
        => ev.capture = ev.winner.uid

\* C6 witness: two acceptors replied, one inside the accept distance and one
\* not, accept was set, and capture was requested on the nearer one.
CaptureRequestedOnNearerOfTwo ==
    /\ ev.kind = "complete"
    /\ ev.task.accept
    /\ Cardinality(Succeeded) = 2
    /\ \E a \in Succeeded : \E b \in Succeeded :
          /\ Replied(a) < MAX_ACCEPT_DISTANCE
          /\ Replied(b) >= MAX_ACCEPT_DISTANCE
          /\ ev.winner.uid = a
          /\ ev.capture = a

\* C7: a task requests capture only with accept set, on its winner, and
\* only when the winner's distance is strictly below MAX_ACCEPT_DISTANCE;
\* otherwise it sets the edge colour and sends nothing else.
CaptureOnlyOnNearWinnerWithAccept ==
    ev.kind = "complete" =>
        /\ ev.capture # None =>
              /\ ev.task.accept
              /\ ev.winner # NoWinner
              /\ ev.capture = ev.winner.uid
              /\ ev.winner.distance < MAX_ACCEPT_DISTANCE
        /\ (~ev.task.accept \/ ev.winner = NoWinner
               \/ ev.winner.distance >= MAX_ACCEPT_DISTANCE)
              => (ev.capture = None /\ ev.colour = EdgeColour(ev.winner))

\* C7 witness: accept was set and the winner replied exactly
\* MAX_ACCEPT_DISTANCE; the colour was set and no capture requested.
NoCaptureAtExactThreshold ==
    /\ ev.kind = "complete"
    /\ ev.task.accept
    /\ ev.winner # NoWinner
    /\ ev.winner.distance = MAX_ACCEPT_DISTANCE
    /\ ev.winner.uid \in Range(acceptors)
    /\ ev.capture = None
    /\ ev.colour.name = "magma"

\* C8 (as claimed): after a frame that ran with no acceptor registered, the
\* edge of every panel that is not captured is white.  The colour the asset
\* ships with is not known, so this speaks of panels whose edge a task has
\* set before.
EdgeWhiteAfterFrameWithoutAcceptors ==
    (ev.kind = "frame" /\ acceptors = <<>>)
        => \A p \in Registered :
              (~items[p].captured /\ items[p].edge # AssetColour)
                  => items[p].edge = White

\* C9 (as claimed): a task that completes after its panel was destroyed sets
\* no colour and requests no capture.  A task is spawned only for a
\* registered panel and uids are not reused while a task runs, so a task
\* whose panel is not registered had its panel destroyed while in flight.
CompletionAfterDestroyDoesNothing ==
    (ev.kind = "complete" /\ ev.uid \notin Registered)
        => (ev.colour = NoColour /\ ev.capture = None)

\* C10: a task spawned by a frame holds the registry's keys and fields as
\* they are at that frame; acceptor_created and acceptor_destroyed leave the
\* tasks in flight as they are; and when the task completes it has queried
\* exactly the fields it holds and its winner is one of the keys it holds,
\* with the distance that acceptor's own field replied.
TaskUsesDispatchSnapshot ==
    /\ [][/\ \A j \in (Len(tasks) + 1)..Len(tasks') :
                tasks'[j].keys = acceptors /\ tasks'[j].fields = acceptors
          /\ ev'.kind \in {"acceptor_created", "acceptor_destroyed"}
                => tasks' = tasks]_vars
    /\ [](ev.kind = "complete" =>
             /\ DOMAIN ev.replies = Range(ev.task.keys)
             /\ ev.winner # NoWinner =>
                   /\ ev.winner.uid \in Range(ev.task.keys)
                   /\ ev.replies[ev.winner.uid].ok
                   /\ ev.winner.distance = Replied(ev.winner.uid))

\* C10 witness: between dispatch and completion the only acceptor of the
\* snapshot was destroyed and another one created; the task's winner is the
\* acceptor of the snapshot.
WinnerFromSnapshotAfterRegistryChanged ==
    /\ ev.kind = "complete"
    /\ ev.task.keys = <<"a">>
    /\ acceptors = <<"b">>
    /\ ev.winner.uid = "a"

----------------------------------------------------------------------------
\* One panel, with every combination of the grabbable's readings.

NextGrab ==
    \/ \E size \in ToplevelSizes, created \in BOOLEAN : item_created("p1", size, created)
    \/ item_captured("p1")
    \/ item_released("p1")
    \/ item_destroyed("p1")
    \/ \E uid \in AcceptorIds : acceptor_created(uid)
    \/ \E uid \in AcceptorIds : acceptor_destroyed(uid)
    \/ \E size \in ToplevelSizes : toplevel_size_changed("p1", size)
    \/ frame_with(AllGrabStates, MaxInFlight)
    \/ \E i \in 1..Len(tasks) : complete(i)

SpecGrab == Init /\ [][NextGrab]_vars

\* C11: the accept flag of every task a frame spawns is (grab not acting and
\* a linear speed present) or (grab stopped this frame), read from the
\* grabbable as the frame's update left it; and a task whose accept flag is
\* not set requests no capture.
AcceptFromGrabAfterUpdate ==
    /\ [][ev'.kind = "frame" =>
            \A j \in (Len(tasks) + 1)..Len(tasks') :
                LET g == items'[tasks'[j].panel].grab
                IN tasks'[j].accept <=> ((~g.acting /\ g.speed) \/ g.stopped)]_vars
    /\ []((ev.kind = "complete" /\ ~ev.task.accept) => ev.capture = None)

\* C11 witness: a task spawned while the grab was acting and had not stopped
\* completed with a registered winner inside the accept distance and
\* requested no capture.
DraggedPanelNotCaptured ==
    /\ ev.kind = "complete"
    /\ "p1" \in Registered
    /\ items["p1"].grab.acting /\ ~items["p1"].grab.stopped
    /\ ~ev.task.accept
    /\ ev.winner # NoWinner
    /\ ev.winner.distance < MAX_ACCEPT_DISTANCE
    /\ ev.winner.uid \in Range(acceptors)
    /\ ev.capture = None

----------------------------------------------------------------------------
\* The capture commands among the commands cs.
Captures(cs) == SelectSeq(cs, LAMBDA c : c.cmd = "capture")

\* C12: a task that sends a capture request sends exactly one, ends (it is
\* not spawned again), and changes nothing of any controller but the edge
\* colour, so its panel stays as captured or not captured and as enabled as
\* it was, whatever becomes of the request; and every frame spawns one more
\* task for every registered panel that is not captured while acceptors are
\* registered.
CaptureRequestChangesNoState ==
    [][/\ (ev'.kind = "complete" /\ ev'.capture # None) =>
             /\ Len(Captures(ev'.sent)) = 1
             /\ Len(tasks') = Len(tasks) - 1
             /\ acceptors' = acceptors
             /\ DOMAIN items' = DOMAIN items
             /\ \A p \in DOMAIN items :
                   [items'[p] EXCEPT !.edge = items[p].edge] = items[p]
       /\ ev'.kind = "frame" =>
             \A p \in DOMAIN items :
                 (~items[p].captured /\ acceptors # <<>>)
                     => Len(TasksOf(tasks', p)) = Len(TasksOf(tasks, p)) + 1]_vars

\* C12 witness: a task has requested capture and its panel is registered,
\* not captured, with model and grabbable enabled.
CaptureRequestedPanelStillFree ==
    /\ ev.kind = "complete"
    /\ ev.capture # None
    /\ ev.uid \in Registered
    /\ ~items[ev.uid].captured
    /\ items[ev.uid].modelEnabled /\ items[ev.uid].grabEnabled

\* Two panels and one acceptor: the lifecycle of the entries of items.
NextItems ==
    \/ \E uid \in PanelIds, size \in ToplevelSizes, created \in BOOLEAN :
           item_created(uid, size, created)
    \/ \E uid \in PanelIds : item_captured(uid)
    \/ \E uid \in PanelIds : item_released(uid)
    \/ \E uid \in PanelIds : item_destroyed(uid)
    \/ acceptor_created("a")
    \/ acceptor_destroyed("a")
    \/ \E uid \in PanelIds, size \in ToplevelSizes : toplevel_size_changed(uid, size)
    \/ frame_with(GrabStates, MaxInFlight)
    \/ \E i \in 1..Len(tasks) : complete(i)

SpecItems == Init /\ [][NextItems]_vars

\* C13: an entry appears in items only in an item_created for its uid
\* whose resources were created, and disappears only in item_destroyed for
\* its uid; after item_destroyed the uid has no entry, whatever state the
\* panel was in; an item_created whose resource creation fails changes
\* nothing; and neither handler changes another panel's entry.
ItemsFollowLifecycle ==
    [][/\ \A p \in PanelIds :
             /\ (p \notin DOMAIN items /\ p \in DOMAIN items')
                    => (ev'.kind = "item_created" /\ ev'.uid = p)
             /\ (p \in DOMAIN items /\ p \notin DOMAIN items')
                    => (ev'.kind = "item_destroyed" /\ ev'.uid = p)
       /\ ev'.kind = "item_created" => ev'.uid \in DOMAIN items'
       /\ ev'.kind = "item_destroyed" => ev'.uid \notin DOMAIN items'
       /\ ev'.kind = "item_create_failed" => UNCHANGED <<items, acceptors, tasks>>
       /\ ev'.kind \in {"item_created", "item_destroyed"} =>
             \A q \in DOMAIN items \ {ev'.uid} :
                 q \in DOMAIN items' /\ items'[q] = items[q]]_vars

\* C13 witness: creating p2's resources failed while p1 was registered and
\* captured; p2 has no entry.
CreationFailedBesideCapturedPanel ==
    /\ ev.kind = "item_create_failed" /\ ev.uid = "p2"
    /\ "p2" \notin Registered
    /\ IsCaptured("p1")

\* The place of acceptor a in the iteration order the task ev reports took
\* its keys in.
PlaceOf(a) == CHOOSE j \in 1..Len(ev.task.keys) : ev.task.keys[j] = a

\* C14: among the acceptors that replied the winning distance, the winner is
\* the one that comes first in the task's iteration order.
FirstOfEqualsWins ==
    (ev.kind = "complete" /\ ev.winner # NoWinner) =>
        \A b \in Succeeded :
            Replied(b) = ev.winner.distance => PlaceOf(ev.winner.uid) <= PlaceOf(b)

\* C14 witness: two acceptors replied the same absolute distance and the
\* first in iteration order won.
TieWonByFirst ==
    /\ ev.kind = "complete"
    /\ Len(ev.task.keys) = 2
    /\ Succeeded = Range(ev.task.keys)
    /\ Replied(ev.task.keys[1]) = Replied(ev.task.keys[2])
    /\ ev.winner.uid = ev.task.keys[1]

----------------------------------------------------------------------------
\* One panel that is resized to several sizes and moved, no acceptors.

NextPanel ==
    \/ \E size \in ResizeSizes, created \in BOOLEAN : item_created("p1", size, created)
    \/ item_captured("p1")
    \/ item_released("p1")
    \/ item_destroyed("p1")
    \/ \E size \in ResizeSizes : toplevel_size_changed("p1", size)
    \/ \E local \in Poses, content \in Poses : moved("p1", local, content)
    \/ frame_with(GrabStates, MaxInFlight)

SpecPanel == Init /\ [][NextPanel]_vars

\* The pose of the grabbable's content parent as seen from the panel item,
\* its child.
ContentParentFromPanel(ui) == Inverse(ui.panelLocal)

\* C15: right after item_released for a registered panel, the panel is not
\* captured, its model and grabbable are enabled, its local transform is the
\* identity, and the content parent seen from the panel is the identity.
ReleasedPanelAtHandleOrigin ==
    (ev.kind = "item_released" /\ ev.uid \in Registered) =>
        LET ui == items[ev.uid]
        IN /\ ~ui.captured
           /\ ui.modelEnabled /\ ui.grabEnabled
           /\ ui.panelLocal = Identity
           /\ ContentParentFromPanel(ui) = Identity

\* C15 witness: the panel was released and its content parent is not at the
\* identity: release took it to where the panel had been moved.
ReleasedWhereThePanelWas ==
    /\ ev.kind = "item_released"
    /\ ev.uid \in Registered
    /\ items[ev.uid].panelLocal = Identity
    /\ items[ev.uid].contentParent # Identity

\* The size the claim gives for a toplevel of size <<x, y>>.
ClaimedSize(size) ==
    <<PANEL_WIDTH, (PANEL_WIDTH * size[2]) \div size[1], PANEL_THICKNESS>>

\* C16: item_created and toplevel_size_changed leave the model's scale and
\* the field's size at [PANEL_WIDTH, PANEL_WIDTH * y / x, PANEL_THICKNESS]
\* for the size <<x, y>> they got; toplevel_size_changed changes nothing
\* else of the controller, captured or not; and handling it once more with
\* the same size changes nothing at all.
ResizeIdempotent ==
    [][/\ (ev'.kind = "item_created" /\ ev'.uid \in DOMAIN items') =>
             /\ items'[ev'.uid].modelScale = ClaimedSize(ev'.size)
             /\ items'[ev'.uid].fieldSize = ClaimedSize(ev'.size)
       /\ ev'.kind = "toplevel_size_changed" =>
             /\ items' = [items EXCEPT ![ev'.uid].modelScale = ClaimedSize(ev'.size),
                                       ![ev'.uid].fieldSize = ClaimedSize(ev'.size)]
             /\ (ev.kind = "toplevel_size_changed" /\ ev.uid = ev'.uid
                    /\ ev.size = ev'.size) => items' = items]_vars

\* C16 witness: a captured panel was resized to a tall toplevel.
CapturedPanelResizedTall ==
    /\ ev.kind = "toplevel_size_changed"
    /\ ev.size = <<1, 2>>
    /\ IsCaptured(ev.uid)
    /\ items[ev.uid].modelScale = <<PANEL_WIDTH, 2 * PANEL_WIDTH, PANEL_THICKNESS>>
    /\ items[ev.uid].fieldSize = <<PANEL_WIDTH, 2 * PANEL_WIDTH, PANEL_THICKNESS>>

----------------------------------------------------------------------------
\* The order of a task's commands and the registry it reads at its end.

\* The gradient colour at distance d (thousandths): 0 at GRADIENT_FROM,
\* 1000 at MAX_ACCEPT_DISTANCE, linear in d.
ColourAt(d) ==
    Magma(((GRADIENT_FROM - d) * 1000) \div (GRADIENT_FROM - MAX_ACCEPT_DISTANCE))

\* C19: a task that completes with a winner sends the colour of the winner's
\* distance first, whatever accept is; a capture request, if any, is its
\* second and last command, goes to the winner, and is sent only with accept
\* set and the winner's distance below MAX_ACCEPT_DISTANCE; the colour is
\* ColourAt of the winner's distance and of nothing else.
ColourFirstThenCapture ==
    (ev.kind = "complete" /\ ev.winner # NoWinner) =>
        /\ Len(ev.sent) \in {1, 2}
        /\ ev.sent[1] = SetColour(ColourAt(ev.winner.distance))
        /\ ev.uid \in Registered => items[ev.uid].edge = ColourAt(ev.winner.distance)
        /\ Len(ev.sent) = 2 =>
              /\ ev.sent[2] = CaptureCmd(ev.winner.uid)
              /\ ev.task.accept
              /\ ev.winner.distance < MAX_ACCEPT_DISTANCE

\* C19 witness: a task sent the colour and then a capture request.
ColourSentBeforeCapture ==
    /\ ev.kind = "complete"
    /\ ev.winner # NoWinner
    /\ Len(ev.sent) = 2
    /\ ev.sent[1].cmd = "set_material_parameter"
    /\ ev.sent[2].cmd = "capture"

\* C20: a capture request goes to an acceptor that is in the registry when
\* the task completes; when the winner is no longer there the task sends the
\* winner's colour and nothing else, whichever other acceptors replied.
CaptureLooksUpLiveRegistry ==
    ev.kind = "complete" =>
        /\ \A k \in 1..Len(ev.sent) :
              ev.sent[k].cmd = "capture" => ev.sent[k].acceptor \in Range(acceptors)
        /\ (ev.winner # NoWinner /\ ev.winner.uid \notin Range(acceptors)) =>
              /\ ev.capture = None
              /\ ev.sent = <<SetColour(EdgeColour(ev.winner))>>

\* C20 witness: accept was set, the winner was within reach but destroyed
\* while the task ran, another acceptor of the snapshot within reach is
\* still registered, and no capture request went out.
NoFallBackToNextNearest ==
    /\ ev.kind = "complete"
    /\ ev.task.accept
    /\ ev.winner # NoWinner
    /\ ev.winner.distance < MAX_ACCEPT_DISTANCE
    /\ ev.winner.uid \notin Range(acceptors)
    /\ \E b \in Succeeded \cap Range(acceptors) : Replied(b) < MAX_ACCEPT_DISTANCE
    /\ ev.sent = <<SetColour(EdgeColour(ev.winner))>>

----------------------------------------------------------------------------
\* One panel and one acceptor, the panel's sampling tasks overlapping: up to
\* MaxPasses of them in flight, each with its own id.

InFlight(id) == \E j \in 1..Len(tasks) : tasks[j].id = id

\* The task with this id gets its replies and runs to its end.
complete_task(id) == \E j \in 1..Len(tasks) : tasks[j].id = id /\ complete(j)

NextPasses ==
    \/ \E created \in BOOLEAN : item_created("p1", <<2, 1>>, created)
    \/ item_captured("p1")
    \/ item_released("p1")
    \/ item_destroyed("p1")
    \/ acceptor_created("a")
    \/ acceptor_destroyed("a")
    \/ frame_tasks(GrabStates, MaxPasses, TRUE)
    \/ \E id \in 1..MaxPasses : complete_task(id)

SpecPasses == Init /\ [][NextPasses]_vars

\* The runtime polls every spawned task, and every query is answered or
\* fails: a task in flight does not wait for ever.
FairPasses == SpecPasses /\ \A id \in 1..MaxPasses : WF_vars(complete_task(id))

\* C17 (as claimed): a task that completes while a task spawned after it for
\* the same panel is in flight sends nothing and changes no controller.
OlderPassDiscarded ==
    [][\A i \in 1..Len(tasks) :
          (/\ ev'.kind = "complete"
           /\ ev'.task = tasks[i]
           /\ \E j \in (i + 1)..Len(tasks) : tasks[j].panel = tasks[i].panel)
          => (ev'.sent = <<>> /\ items' = items)]_vars

IsPrefix(s, t) == Len(s) <= Len(t) /\ \A j \in 1..Len(s) : t[j] = s[j]

\* C18: no handler removes a task in flight: a step other than a task's
\* completion leaves the tasks in flight as they were, with the new ones
\* after them, and a completion removes one task; and every task in flight
\* is eventually no longer in flight (at all times there is a later time at
\* which the task with a given id is not in flight).
PassesRunToCompletion ==
    /\ [][/\ ev'.kind # "complete" => IsPrefix(tasks, tasks')
          /\ ev'.kind = "complete" => Len(tasks') = Len(tasks) - 1]_vars
    /\ \A id \in 1..MaxPasses : []<>~InFlight(id)

\* C18 witness: a frame spawned a task for a panel that had one in flight.
FrameDispatchedWhilePassInFlight ==
    /\ ev.kind = "frame"
    /\ Len(tasks) = 2
    /\ tasks[1].panel = tasks[2].panel
    /\ tasks[1].id # tasks[2].id

====
